---- MODULE Spec2Model ----
(***************************************************************************)
(* Fouling-cost prediction engine: the physics cost model (FoulingPhysics) *)
(* and the adaptive correction layer (AdaptiveFoulingModel) on top of it,  *)
(* together with the fouling_models row the layer loads and saves.         *)
(*                                                                         *)
(* Numbers.  A JavaScript Number is modelled as a fixed-point integer with *)
(* three decimals (1.0 is Scale), or as one of the two special values NaN  *)
(* and Infinity.  Products and quotients are truncated to three decimals.  *)
(* Day counts, fouling levels, observation counts and the integer parts of *)
(* Math.pow are plain integers.                                            *)
(***************************************************************************)
EXTENDS Integers, Sequences, FiniteSets, TLC

VARIABLES physics, model, db, call

vars == <<physics, model, db, call>>

----------------------------------------------------------------------------
(* JavaScript Number arithmetic                                            *)

Scale == 10 * 10 * 10

\* the largest value of a 32-bit signed integer
MaxInt == (2 ^ 30 - 1) * 2 + 1

\* NaN: the value of an arithmetic expression one of whose operands is not
\* a number (an object, undefined) or is itself NaN
NaN == -2000000001

\* Infinity: the value recommendCleaning gives daysToBreakeven when there is
\* no extra cost
Infinity == 2000000000

IsNaN(x) == x = NaN

Abs(x) == IF x < 0 THEN -x ELSE x

Sgn(x) == IF x < 0 THEN -1 ELSE 1

\* <<quotient, remainder>> of a * b by c for a, b >= 0 and c > 0, computed
\* by doubling so that no intermediate product leaves the integer range
RECURSIVE MulDivMod(_, _, _)
MulDivStep(h, a, odd, c) ==
    LET r == 2 * h[2] + (IF odd THEN a % c ELSE 0)
        q == 2 * h[1] + (IF odd THEN a \div c ELSE 0)
    IN  <<q + (r \div c), r % c>>

MulDivMod(a, b, c) ==
    IF b = 0 THEN <<0, 0>>
    ELSE IF a <= MaxInt \div b THEN <<(a * b) \div c, (a * b) % c>>
    ELSE MulDivStep(MulDivMod(a, b \div 2, c), a, b % 2 = 1, c)

\* a * b / c truncated toward zero, for c # 0
MulDiv(a, b, c) ==
    Sgn(a) * Sgn(b) * Sgn(c) * MulDivMod(Abs(a), Abs(b), Abs(c))[1]

\* x + y, x - y, x * y, x / y on Numbers
Plus(x, y) == IF IsNaN(x) \/ IsNaN(y) THEN NaN ELSE x + y

Minus(x, y) == IF IsNaN(x) \/ IsNaN(y) THEN NaN ELSE x - y

Times(x, y) == IF IsNaN(x) \/ IsNaN(y) THEN NaN ELSE MulDiv(x, y, Scale)

Over(x, y) ==
    IF IsNaN(x) \/ IsNaN(y) THEN NaN
    ELSE IF y = 0 THEN (IF x = 0 THEN NaN ELSE Sgn(x) * Infinity)
    ELSE MulDiv(x, Scale, y)

\* Math.max, Math.min, Math.abs: NaN if an argument is NaN
MathMax(x, y) == IF IsNaN(x) \/ IsNaN(y) THEN NaN ELSE IF x >= y THEN x ELSE y

MathMin(x, y) == IF IsNaN(x) \/ IsNaN(y) THEN NaN ELSE IF x <= y THEN x ELSE y

MathAbs(x) == IF IsNaN(x) THEN NaN ELSE Abs(x)

\* x < y, x > y, x <= y: false as soon as an operand is NaN
Lt(x, y) == ~IsNaN(x) /\ ~IsNaN(y) /\ x < y

Gt(x, y) == ~IsNaN(x) /\ ~IsNaN(y) /\ x > y

Le(x, y) == ~IsNaN(x) /\ ~IsNaN(y) /\ x <= y

\* !x for a Number: 0 and NaN are falsy
Falsy(x) == IsNaN(x) \/ x = 0

\* x || d
OrElse(x, d) == IF Falsy(x) THEN d ELSE x

\* the Number an object converts to when it is an operand of *, - : NaN
ObjectToNumber(obj) == NaN

\* Math.sqrt of a fixed-point x >= 0, as a fixed-point value
RECURSIVE SqrtSearch(_, _, _)
SqrtSearch(n, lo, hi) ==
    IF lo >= hi THEN lo
    ELSE LET mid == (lo + hi + 1) \div 2
         IN  IF mid <= n \div mid THEN SqrtSearch(n, mid, hi)
             ELSE SqrtSearch(n, lo, mid - 1)

MathSqrt(x) == SqrtSearch(x * Scale, 0, 46340)

\* Math.pow(x, k) for an integer k >= 0, fixed-point
RECURSIVE IntPow(_, _)
IntPow(x, k) == IF k = 0 THEN Scale ELSE Times(IntPow(x, k - 1), x)

\* Math.pow(x, w) truncated to an integer, for an exponent w that is a
\* multiple of 0.5: NaN for a negative base with a fractional exponent
TruncateToInteger(x) == Sgn(x) * (Abs(x) \div Scale)

MathPow(x, w) ==
    IF IsNaN(x) THEN NaN
    ELSE IF (w % Scale) = 0 THEN TruncateToInteger(IntPow(x, w \div Scale))
    ELSE IF x < 0 THEN NaN
    ELSE TruncateToInteger(Times(IntPow(x, w \div Scale), MathSqrt(x)))

\* Math.round(x * k) / k, where step is the fixed-point value of 1 / k
RoundToStep(x, step) ==
    IF IsNaN(x) \/ Abs(x) = Infinity THEN x
    ELSE ((x + step \div 2) \div step) * step

\* Math.log10 of a whole number x >= 1, to three decimals: the number of
\* digits after the first, and the logarithm of the five leading digits y
\* (1 <= y / 10000 < 10) found bit by bit, in 1024ths, by squaring
RECURSIVE Log10Floor(_)
Log10Floor(x) == IF x < 10 THEN 0 ELSE 1 + Log10Floor(x \div 10)

RECURSIVE Log10Fraction(_, _)
Log10Squared(squared, bit) ==
    IF squared >= 100000 THEN bit + Log10Fraction(squared \div 10, bit \div 2)
    ELSE Log10Fraction(squared, bit \div 2)

Log10Fraction(y, bit) ==
    IF bit = 0 THEN 0 ELSE Log10Squared(MulDiv(y, y, 10000), bit)

LeadingDigits(x, digits) ==
    IF digits >= 4 THEN x \div (10 ^ (digits - 4)) ELSE x * (10 ^ (4 - digits))

Log10OfDigits(x, digits) ==
    digits * Scale + (Log10Fraction(LeadingDigits(x, digits), 512) * Scale) \div 1024

MathLog10(x) == Log10OfDigits(x, Log10Floor(x))

\* Math.pow(x, 1 / 3) of a fixed-point x >= 0, to one decimal
RECURSIVE CbrtSearch(_, _, _)
CbrtSearch(n, lo, hi) ==
    IF lo >= hi THEN lo
    ELSE IF ((lo + hi + 1) \div 2) * ((lo + hi + 1) \div 2) * ((lo + hi + 1) \div 2) <= n
      THEN CbrtSearch(n, (lo + hi + 1) \div 2, hi)
      ELSE CbrtSearch(n, lo, (lo + hi + 1) \div 2 - 1)

MathCbrt(x) == CbrtSearch(x, 0, 1000) * (Scale \div 10)

----------------------------------------------------------------------------
(* FoulingPhysics                                                          *)

KNOTS_TO_MPS == 514

GRAVITY == 9810

\* this.frKsMapping, in units of 0.00001 m
frKsMapping == <<0, 3, 10, 30, 80, 200>>

\* foulingIncreases of calculateCostAt
foulingIncreases == <<0, 150, 350, 600, 950, 1930>>

\* the table read one entry further on
ArrayAtOrZeroShifted(table, index) ==
    IF index + 1 \in 0 .. (Len(table) - 1) THEN table[index + 2] ELSE 0

\* table[index] || 0 for a JavaScript array: undefined outside 0 .. length-1
ArrayAtOrZero(table, index) ==
    IF index \in 0 .. (Len(table) - 1) THEN table[index + 1] ELSE 0

\* kinematic viscosity, in units of 0.000000001 m2/s
NU_WATER == 1190

RHO_WATER == 1025

propEfficiency == 650

FUEL_ENERGY_DENSITY == 42700

\* this.FUEL_PRICE_PER_LITER / this.FUEL_DENSITY
fuelCostPerKg == Over(1920, 850)

\* length * beam * draft * cb * RHO_WATER / 1000, in tonnes
HullDisplacement(vessel) ==
    Times(Times(Times(Times(vessel.length, vessel.beam), vessel.draft), vessel.cb),
          Over(RHO_WATER * Scale, 1000 * Scale))

\* calculateWettedSurface: the polynomial in cb and beam / draft, its
\* coefficients taken to four decimals
WettedSurfaceFactor(vessel) ==
    453 + MulDiv(4425, vessel.cb, 10000)
        - MulDiv(2862, Times(vessel.cb, vessel.cb), 10000)
        + MulDiv(3467, vessel.beam, vessel.draft) \div Scale
        + MulDiv(3696, 650, 10000)

CalculateWettedSurface(vessel) ==
    Times(Times(Times(vessel.length, 2 * vessel.draft + vessel.beam),
                MathSqrt(vessel.cb)),
          WettedSurfaceFactor(vessel))

\* new FoulingPhysics(vessel): the fields the cost model reads.  alpha and
\* beta are kept as the exact fractions alphaNum / det and betaNum / det;
\* solved is "this.alpha !== null".  The vessel's speeds and costs are
\* given (truthy): estimateMissingParameters, which replaces a missing one
\* by an estimate from the hull form, leaves them as they are.
NewFoulingPhysics(vessel) ==
    [ length    |-> vessel.length,
      beam      |-> vessel.beam,
      draft     |-> vessel.draft,
      cb        |-> vessel.cb,
      displacement  |-> OrElse(vessel.displacement, HullDisplacement(vessel)),
      wettedSurface |-> CalculateWettedSurface(vessel),
      waveExp   |-> OrElse(vessel.wave_exp, 4500),
      ecoSpeed  |-> vessel.eco_speed,
      fullSpeed |-> vessel.full_speed,
      costEco   |-> vessel.cost_eco,
      costFull  |-> vessel.cost_full,
      solved    |-> FALSE,
      alphaNum  |-> 0,
      betaNum   |-> 0,
      det       |-> 0 ]

\* Cramer's rule with x1 in place of x2 in beta's numerator
CramersRuleSwapped(ecoCost, fullCost, x1, y1, x2, y2) ==
    IF IsNaN(y1) \/ IsNaN(y2)
      THEN [threw |-> FALSE, alphaNum |-> NaN, betaNum |-> NaN, det |-> NaN]
      ELSE [ threw    |-> FALSE,
             alphaNum |-> Times(ecoCost, y2) - Times(fullCost, y1),
             betaNum  |-> Times(fullCost, x1) - Times(ecoCost, x1),
             det      |-> x1 * y2 - x2 * y1 ]

\* solveAlphaBeta past its guards: Cramer's rule on the powers x1, y1, x2,
\* y2.  A NaN power (a negative speed under a fractional exponent) makes
\* alpha and beta NaN; det = 0 makes them infinite or NaN.
CramersRule(ecoCost, fullCost, x1, y1, x2, y2) ==
    IF IsNaN(y1) \/ IsNaN(y2)
      THEN [threw |-> FALSE, alphaNum |-> NaN, betaNum |-> NaN, det |-> NaN]
      ELSE [ threw    |-> FALSE,
             alphaNum |-> Times(ecoCost, y2) - Times(fullCost, y1),
             betaNum  |-> Times(fullCost, x1) - Times(ecoCost, x2),
             det      |-> x1 * y2 - x2 * y1 ]

\* solveAlphaBeta: [threw, alphaNum, betaNum, det]
SolveAlphaBeta(p, ecoCost, fullCost, ecoSpeed, fullSpeed) ==
    IF ecoSpeed = fullSpeed
      THEN [threw |-> TRUE, alphaNum |-> 0, betaNum |-> 0, det |-> 0]
    ELSE IF Falsy(ecoCost) \/ Falsy(fullCost) \/ Falsy(ecoSpeed) \/ Falsy(fullSpeed)
      THEN [threw |-> TRUE, alphaNum |-> 0, betaNum |-> 0, det |-> 0]
    ELSE CramersRule(ecoCost, fullCost,
                     MathPow(ecoSpeed, 3 * Scale), MathPow(ecoSpeed, p.waveExp),
                     MathPow(fullSpeed, 3 * Scale), MathPow(fullSpeed, p.waveExp))

\* the physics object after a solveAlphaBeta that returned: values cached
CacheAlphaBeta(p, r) ==
    [p EXCEPT !.solved = TRUE, !.alphaNum = r.alphaNum,
              !.betaNum = r.betaNum, !.det = r.det]

\* alpha * clampedSpeed^3 + beta * clampedSpeed^waveExp
PowerLaw(p, clampedSpeed) ==
    IF IsNaN(clampedSpeed) \/ IsNaN(p.det) \/ p.det = 0 THEN NaN
    ELSE MulDiv(p.alphaNum, MathPow(clampedSpeed, 3 * Scale) * Scale, p.det)
       + MulDiv(p.betaNum, MathPow(clampedSpeed, p.waveExp) * Scale, p.det)

\* the clamp with its upper end at 1.5 times the full speed
CalculateBaseCostWide(p, speed) ==
    PowerLaw(p, MathMax(Scale \div 10, MathMin(speed, Times(p.fullSpeed, 1500))))

\* calculateBaseCost on an object whose alpha and beta are cached
CalculateBaseCost(p, speed) ==
    PowerLaw(p, MathMax(Scale \div 10, MathMin(speed, Times(p.fullSpeed, 1200))))

\* a factor that grows with the Froude number
SpeedReductionRising(Fr) ==
    IF Gt(Fr, 150) THEN MathMax(300, Scale + 2 * (Fr - 150)) ELSE Scale

\* the speed-dependent reduction factor of calculateCostAt
SpeedReduction(Fr) ==
    IF Gt(Fr, 150) THEN MathMax(300, Scale - 2 * (Fr - 150)) ELSE Scale

\* the Froude number of calculateCostAt
Froude(p, speed) ==
    Over(Times(speed, KNOTS_TO_MPS), MathSqrt(Times(GRAVITY, p.length)))

\* the object calculateCostAt returns
CostObject(baseCost, roughness, speedReduction, effectiveFoulingIncrease) ==
    [ clean           |-> baseCost,
      fouled          |-> Times(baseCost, Scale + effectiveFoulingIncrease),
      foulingIncrease |-> effectiveFoulingIncrease,
      speedReduction  |-> speedReduction,
      roughness       |-> roughness ]

CostWithReduction(baseCost, frLevel, speedReduction) ==
    CostObject(baseCost, ArrayAtOrZero(frKsMapping, frLevel), speedReduction,
               Times(ArrayAtOrZero(foulingIncreases, frLevel), speedReduction))

\* calculateCostAt
CalculateCostAt(p, speed, frLevel) ==
    CostWithReduction(CalculateBaseCost(p, speed), frLevel,
                      SpeedReduction(Froude(p, speed)))

\* the band taken on the whole fouled cost, not on the increase alone
ConfidenceIntervalsOnWholeCost(result) ==
    [ clean           |-> result.clean,
      fouled          |-> result.fouled,
      foulingIncrease |-> result.foulingIncrease,
      speedReduction  |-> result.speedReduction,
      roughness       |-> result.roughness,
      confidenceLower |-> Times(result.fouled, 850),
      confidenceUpper |-> Times(result.fouled, 1150),
      confidenceInterval |-> 150 ]

\* calculateConfidenceIntervals, from the object calculateCostAt returned
\* to it
ConfidenceIntervals(result) ==
    [ clean           |-> result.clean,
      fouled          |-> result.fouled,
      foulingIncrease |-> result.foulingIncrease,
      speedReduction  |-> result.speedReduction,
      roughness       |-> result.roughness,
      confidenceLower |->
          Times(result.clean, Plus(Scale, Times(result.foulingIncrease, Scale - 150))),
      confidenceUpper |->
          Times(result.clean, Plus(Scale, Times(result.foulingIncrease, Scale + 150))),
      confidenceInterval |-> 150 ]

\* calculateReynolds, a whole number
CalculateReynolds(speedMs, length) ==
    IF IsNaN(speedMs) THEN NaN
    ELSE MulDiv(Times(speedMs, length), 1000000, NU_WATER)

\* calculateCfs, in units of 0.000000001
CfsOfLog(log10ReL) ==
    IF log10ReL = 2 * Scale THEN Infinity
    ELSE MulDiv(75000000, 1000000, (log10ReL - 2 * Scale) * (log10ReL - 2 * Scale))

CalculateCfs(ReL) ==
    IF IsNaN(ReL) THEN NaN
    ELSE IF ReL <= 0 THEN 0
    ELSE CfsOfLog(MathLog10(ReL))

\* Math.min(Cfs * roughnessFactor, Cfs * 3), where roughnessFactor is
\* 1 + 100 * ks / L, ks in units of 0.00001 m
RoughCf(Cfs, ks, L) ==
    IF IsNaN(Cfs) \/ Cfs = Infinity THEN Cfs
    ELSE MathMin(MulDiv(Cfs, 1000000 + (ks * 1000000) \div L, 1000000), Cfs * 3)

\* calculateCf
CalculateCf(ReL, ks, L) ==
    IF ks <= 0 THEN CalculateCfs(ReL) ELSE RoughCf(CalculateCfs(ReL), ks, L)

\* 0.5 * RHO_WATER * wettedSurface * coefficient * speedMs * speedMs, in
\* newtons, for a coefficient in units of 0.000000001
ResistanceOf(p, coefficient, speedMs) ==
    IF IsNaN(coefficient) \/ IsNaN(speedMs) THEN NaN
    ELSE IF coefficient = Infinity THEN (IF speedMs = 0 THEN NaN ELSE Infinity)
    ELSE Times(MulDiv(Times((RHO_WATER * Scale) \div 2, p.wettedSurface) \div Scale,
                      coefficient, 1000000),
               Times(speedMs, speedMs))

\* Cw of calculateWaveResistance, in units of 0.000000001
WaveCoefficient(Fr) ==
    IF IsNaN(Fr) THEN NaN
    ELSE IF Fr > 50 THEN MulDiv(MulDiv(80000, Fr * Fr, 1000000), Fr * Fr, 1000000)
    ELSE 0

\* calculateFormFactor
CalculateFormFactor(p) ==
    MathMax(0, Scale + Times(11, p.cb)
                 - Times(1, Over(p.length, MathCbrt(p.displacement))))

\* totalResistance of calculateResistanceComponents
TotalResistance(frictionResistance, waveResistance, K) ==
    IF IsNaN(frictionResistance) \/ IsNaN(waveResistance) THEN NaN
    ELSE IF frictionResistance = Infinity THEN Infinity
    ELSE Plus(Times(frictionResistance, Scale + K), waveResistance)

\* the friction and wave resistance and their total at speedMs
ResistanceAt(p, speed, speedMs, roughness) ==
    TotalResistance(
        ResistanceOf(p, CalculateCf(CalculateReynolds(speedMs, p.length),
                                    roughness, p.length), speedMs),
        ResistanceOf(p, WaveCoefficient(Froude(p, speed)), speedMs),
        CalculateFormFactor(p))

\* calculateResistanceComponents(speed, frLevel).total
CalculateResistanceComponents(p, speed, frLevel) ==
    ResistanceAt(p, speed, Times(speed, KNOTS_TO_MPS),
                 ArrayAtOrZero(frKsMapping, frLevel))

\* calculatePowerRequired(speed, frLevel).power, in kW
PowerOf(totalResistance, speedMs) ==
    IF IsNaN(totalResistance) \/ IsNaN(speedMs) THEN NaN
    ELSE IF totalResistance = Infinity THEN Infinity
    ELSE Over(MulDiv(totalResistance, speedMs, 1000000), propEfficiency)

CalculatePowerRequired(p, speed, frLevel) ==
    PowerOf(CalculateResistanceComponents(p, speed, frLevel), Times(speed, KNOTS_TO_MPS))

\* the fuelRate and cost of the object estimateFuelRate returns, the
\* engine efficiency being the default 0.4
FuelAndCost(fuelConsumption) ==
    [fuelRate |-> fuelConsumption, cost |-> Times(fuelConsumption, fuelCostPerKg)]

FuelOfPower(power) ==
    IF IsNaN(power) \/ power = Infinity THEN [fuelRate |-> power, cost |-> power]
    ELSE FuelAndCost(Over(power, (400 * FUEL_ENERGY_DENSITY) \div 3600))

\* estimateFuelRate(speed, frLevel)
EstimateFuelRate(p, speed, frLevel) ==
    FuelOfPower(CalculatePowerRequired(p, speed, frLevel))

----------------------------------------------------------------------------
(* AdaptiveFoulingModel                                                    *)

maxBufferSize == 100

cleaningCost == 15000

\* the fouling_models row of the vessel: absent, or its columns
NoRow ==
    [ exists |-> FALSE, correction_factor |-> 0, fouling_accumulation_rate |-> 0,
      estimated_fr_level |-> 0, confidence_score |-> 0, training_data_count |-> 0 ]

\* the row createVesselWithModel inserts with the vessel
InitialRow ==
    [ exists |-> TRUE, correction_factor |-> Scale,
      fouling_accumulation_rate |-> Scale, estimated_fr_level |-> 0,
      confidence_score |-> 0, training_data_count |-> 0 ]

\* the thresholds compared with <= in place of <
LevelOfAdjustedDaysInclusive(adjustedDays) ==
    IF Le(adjustedDays, 30 * Scale) THEN 0
    ELSE IF Le(adjustedDays, 60 * Scale) THEN 1
    ELSE IF Le(adjustedDays, 120 * Scale) THEN 2
    ELSE IF Le(adjustedDays, 180 * Scale) THEN 3
    ELSE IF Le(adjustedDays, 270 * Scale) THEN 4
    ELSE 5

\* the thresholds of estimateFRLevel on adjustedDays
LevelOfAdjustedDays(adjustedDays) ==
    IF Lt(adjustedDays, 30 * Scale) THEN 0
    ELSE IF Lt(adjustedDays, 60 * Scale) THEN 1
    ELSE IF Lt(adjustedDays, 120 * Scale) THEN 2
    ELSE IF Lt(adjustedDays, 180 * Scale) THEN 3
    ELSE IF Lt(adjustedDays, 270 * Scale) THEN 4
    ELSE 5

\* estimateFRLevel(days) under accumulation rate `rate`; days is a whole
\* number of days
EstimateFRLevel(days, rate) ==
    LevelOfAdjustedDays(IF IsNaN(rate) THEN NaN ELSE days * rate)

\* weatherMultipliers[weather] || weatherMultipliers.moderate, where a call
\* that passes no weather ("undefined") gets the parameter default 'calm'
WeatherMultiplier(weather) ==
    CASE weather \in {"undefined", "calm"} -> 1000
      [] weather = "moderate" -> 1050
      [] weather = "rough" -> 1150
      [] weather = "storm" -> 1300
      [] OTHER -> 1050

\* the components object of predict.  baseCost is the object calculateCostAt
\* returns, and it is that object that is multiplied.
PredictionObject(m, baseCost, frLevel, weatherMultiplier) ==
    [ predicted         |-> Times(Times(ObjectToNumber(baseCost), m.correctionFactor),
                                  weatherMultiplier),
      base              |-> baseCost,
      frLevel           |-> frLevel,
      correctionFactor  |-> m.correctionFactor,
      weatherMultiplier |-> weatherMultiplier,
      confidence        |-> m.confidence ]

PredictAtLevel(m, p, speed, weather, frLevel) ==
    PredictionObject(m, CalculateCostAt(p, speed, frLevel), frLevel,
                     WeatherMultiplier(weather))

\* predict(speed, weather, true)
Predict(m, p, speed, weather) ==
    PredictAtLevel(m, p, speed, weather,
                   EstimateFRLevel(m.daysSinceClean, m.foulingAccumulationRate))

\* updateConfidence(relativeError): the new this.confidence
UpdateConfidence(confidence, relativeError) ==
    IF Lt(relativeError, 150)
      THEN MathMin(100 * Scale,
               Plus(confidence,
                    Times(Times(Minus(150, relativeError), 100 * Scale), 500)))
      ELSE MathMax(0,
               Minus(confidence,
                     Times(Times(Minus(relativeError, 150), 100 * Scale), 300)))

\* the newest record removed (pop) in place of the oldest
ShiftIfOverNewest(pushed) ==
    IF Len(pushed) > maxBufferSize THEN SubSeq(pushed, 1, Len(pushed) - 1) ELSE pushed

\* this.trainingDataBuffer.shift() once the buffer exceeds maxBufferSize
ShiftIfOver(pushed) ==
    IF Len(pushed) > maxBufferSize THEN Tail(pushed) ELSE pushed

\* storeTrainingData(dataPoint): the new this.trainingDataBuffer
StoreTrainingData(buffer, dataPoint) == ShiftIfOver(Append(buffer, dataPoint))

ShouldRetrain(m) ==
    (m.trainingDataCount % 10 = 0)
    \/ (Lt(m.confidence, 50 * Scale) /\ Len(m.trainingDataBuffer) >= 5)

\* errors.reduce((a, b) => a + b, 0)
RECURSIVE SumOf(_)
SumOf(errors) ==
    IF errors = <<>> THEN 0 ELSE Plus(Head(errors), SumOf(Tail(errors)))

\* errorsByFR[frLevel]: the errors of the data points of one fouling level
RECURSIVE ErrorsOfLevel(_, _)
ErrorsOfLevel(dataPoints, frLevel) ==
    IF dataPoints = <<>> THEN <<>>
    ELSE IF Head(dataPoints).frLevel = frLevel
      THEN <<Head(dataPoints).error>> \o ErrorsOfLevel(Tail(dataPoints), frLevel)
      ELSE ErrorsOfLevel(Tail(dataPoints), frLevel)

\* totalAdjustment += avgError * 0.5, for a level that has errors
AddAdjustment(errors, rest) ==
    IF errors = <<>> THEN rest
    ELSE Plus(Times(Over(SumOf(errors), Len(errors) * Scale), 500), rest)

\* totalAdjustment over the keys of errorsByFR from level `frLevel` up
RECURSIVE TotalAdjustment(_, _)
TotalAdjustment(dataPoints, frLevel) ==
    IF frLevel > 5 THEN 0
    ELSE AddAdjustment(ErrorsOfLevel(dataPoints, frLevel),
                       TotalAdjustment(dataPoints, frLevel + 1))

\* adjustmentCount: the number of keys of errorsByFR
AdjustmentCount(dataPoints) ==
    Cardinality({dataPoints[k].frLevel : k \in 1 .. Len(dataPoints)})

\* the rate computed from however few data points
RateFromDataPointsUnguarded(rate, dataPoints) ==
    MathMax(500, MathMin(2000,
        Times(rate,
              Plus(Scale, Over(TotalAdjustment(dataPoints, 1),
                               AdjustmentCount(dataPoints) * Scale)))))

\* updateFoulingAccumulationRate on the filtered data points
RateFromDataPoints(rate, dataPoints) ==
    IF Len(dataPoints) < 3 THEN rate
    ELSE MathMax(500, MathMin(2000,
             Times(rate,
                   Plus(Scale, Over(TotalAdjustment(dataPoints, 1),
                                    AdjustmentCount(dataPoints) * Scale)))))

\* updateFoulingAccumulationRate: the new this.foulingAccumulationRate
UpdateFoulingAccumulationRate(m) ==
    RateFromDataPoints(m.foulingAccumulationRate,
                       SelectSeq(m.trainingDataBuffer, LAMBDA d : d.frLevel > 0))

\* retrainModel: the instance afterwards
RetrainModel(m) ==
    IF Len(m.trainingDataBuffer) < 3 THEN m
    ELSE [m EXCEPT !.foulingAccumulationRate = UpdateFoulingAccumulationRate(m)]

\* the columns saveModelState writes
SavedColumns(m) ==
    [ exists |-> TRUE,
      correction_factor |-> m.correctionFactor,
      fouling_accumulation_rate |-> m.foulingAccumulationRate,
      estimated_fr_level |->
          EstimateFRLevel(m.daysSinceClean, m.foulingAccumulationRate),
      confidence_score |-> m.confidence,
      training_data_count |-> m.trainingDataCount ]

\* a save that increments the stored count in place of writing the
\* instance's own
SaveModelStateIncrementing(m, row) ==
    IF row.exists
      THEN [SavedColumns(m) EXCEPT !.training_data_count = row.training_data_count + 1]
      ELSE SavedColumns(m)

\* saveModelState: the row afterwards.  The UPDATE changes the row when one
\* exists; the INSERT is refused when one exists (vessel_id is the primary
\* key) and the error is caught and logged.
SaveModelState(m, row) ==
    IF m.modelState.exists
      THEN (IF row.exists THEN SavedColumns(m) ELSE row)
      ELSE (IF row.exists THEN row ELSE SavedColumns(m))

\* this.modelState?.column || fallback
ColumnOrElse(row, value, fallback) ==
    IF row.exists THEN OrElse(value, fallback) ELSE fallback

\* the constructor: modelState is the row as loaded; the adaptive
\* parameters are taken from it or defaulted
NewAdaptiveFoulingModel(row, daysSinceClean) ==
    [ pc                      |-> "constructed",
      modelState              |-> row,
      correctionFactor        |-> ColumnOrElse(row, row.correction_factor, Scale),
      foulingAccumulationRate |-> ColumnOrElse(row, row.fouling_accumulation_rate, Scale),
      confidence              |-> ColumnOrElse(row, row.confidence_score, 0),
      trainingDataCount       |-> ColumnOrElse(row, row.training_data_count, 0),
      daysSinceClean          |-> daysSinceClean,
      trainingDataBuffer      |-> <<>> ]

\* a retraining on every reading
RetrainAlways(m) == RetrainModel(m)

\* if (this.shouldRetrain()) this.retrainModel()
RetrainIfDue(m) == IF ShouldRetrain(m) THEN RetrainModel(m) ELSE m

\* updateFromReading from the correction factor update to the retraining
ApplyReading(m, actualFuelRate, speed, weather, frLevel, predicted, relativeError, signedError, learningRate) ==
    RetrainIfDue(
        [m EXCEPT
           !.correctionFactor =
               MathMax(300, MathMin(3000,
                   Plus(Times(m.correctionFactor, Minus(Scale, learningRate)),
                        Times(Plus(Scale, Times(signedError, learningRate)),
                              learningRate)))),
           !.confidence = UpdateConfidence(m.confidence, relativeError),
           !.trainingDataBuffer =
               StoreTrainingData(m.trainingDataBuffer,
                   [ actual |-> actualFuelRate, predicted |-> predicted,
                     speed |-> speed,
                     weather |-> IF weather = "undefined" THEN "calm" ELSE weather,
                     frLevel |-> frLevel, error |-> relativeError ]),
           !.trainingDataCount = m.trainingDataCount + 1])

\* updateFromReading: the error metrics and the learning rate
LearnFromPrediction(m, actualFuelRate, speed, weather, prediction) ==
    ApplyReading(m, actualFuelRate, speed, weather, prediction.frLevel,
        prediction.predicted,
        Over(MathAbs(Minus(actualFuelRate, prediction.predicted)), prediction.predicted),
        Over(Minus(actualFuelRate, prediction.predicted), prediction.predicted),
        Times(100, MathMax(500, Minus(Scale, Over(m.confidence, 100 * Scale)))))

\* updateFromReading past its guard: the instance before it is saved
Learn(m, p, actualFuelRate, speed, weather) ==
    LearnFromPrediction(m, actualFuelRate, speed, weather,
                        Predict(m, p, speed, weather))

\* the guard written with < in place of <=
InvalidFuelRateNegativeOnly(actualFuelRate) == Lt(actualFuelRate, 0)

\* the guard of updateFromReading
InvalidFuelRate(actualFuelRate) == Le(actualFuelRate, 0)

\* calculateExtraCostPerDay: predict returns the Number, cleanCost is the
\* object calculateCostAt returns
CalculateExtraCostPerDay(m, p) ==
    MathMax(0,
        Times(Minus(Predict(m, p, p.ecoSpeed, "undefined").predicted,
                    ObjectToNumber(CalculateCostAt(p, p.ecoSpeed, 0))),
              24 * Scale))

\* Math.round
MathRound(x) ==
    IF IsNaN(x) \/ Abs(x) = Infinity THEN x
    ELSE Sgn(x) * (((Abs(x) + Scale \div 2) \div Scale) * Scale)

\* the recommendation with the level threshold at 4 in place of 3
RecommendationObjectLevelFour(m, currentFRLevel, extraCostPerDay, daysToBreakeven, annualSavings) ==
    [ recommended      |-> \/ currentFRLevel >= 4
                           \/ Lt(daysToBreakeven, 60 * Scale)
                           \/ Gt(annualSavings, cleaningCost * 2 * Scale),
      currentFRLevel   |-> currentFRLevel,
      extraCostPerDay  |-> MathRound(extraCostPerDay),
      daysToBreakeven  |-> MathRound(daysToBreakeven),
      annualSavings    |-> MathRound(annualSavings),
      cleaningCost     |-> cleaningCost * Scale,
      confidence       |-> MathRound(m.confidence),
      daysSinceClean   |-> m.daysSinceClean,
      correctionFactor |-> m.correctionFactor ]

\* the object recommendCleaning returns
RecommendationObject(m, currentFRLevel, extraCostPerDay, daysToBreakeven, annualSavings) ==
    [ recommended      |-> \/ currentFRLevel >= 3
                           \/ Lt(daysToBreakeven, 60 * Scale)
                           \/ Gt(annualSavings, cleaningCost * 2 * Scale),
      currentFRLevel   |-> currentFRLevel,
      extraCostPerDay  |-> MathRound(extraCostPerDay),
      daysToBreakeven  |-> MathRound(daysToBreakeven),
      annualSavings    |-> MathRound(annualSavings),
      cleaningCost     |-> cleaningCost * Scale,
      confidence       |-> MathRound(m.confidence),
      daysSinceClean   |-> m.daysSinceClean,
      correctionFactor |-> m.correctionFactor ]

\* recommendCleaning: the payback period and the annual savings
RecommendFromCost(m, currentFRLevel, extraCostPerDay) ==
    RecommendationObject(m, currentFRLevel, extraCostPerDay,
        IF Gt(extraCostPerDay, 0) THEN Over(cleaningCost * Scale, extraCostPerDay)
        ELSE Infinity,
        Times(extraCostPerDay, 365 * Scale))

\* recommendCleaning
RecommendCleaning(m, p) ==
    RecommendFromCost(m,
        EstimateFRLevel(m.daysSinceClean, m.foulingAccumulationRate),
        CalculateExtraCostPerDay(m, p))

\* getModelStatistics(): baseAlpha and baseBeta are the fractions the
\* constructor took from solveAlphaBeta
GetModelStatistics(m, p) ==
    [ baseAlpha               |-> <<p.alphaNum, p.det>>,
      baseBeta                |-> <<p.betaNum, p.det>>,
      correctionFactor        |-> m.correctionFactor,
      foulingAccumulationRate |-> m.foulingAccumulationRate,
      confidence              |-> m.confidence,
      trainingDataCount       |-> m.trainingDataCount,
      currentFRLevel          |-> EstimateFRLevel(m.daysSinceClean, m.foulingAccumulationRate),
      daysSinceClean          |-> m.daysSinceClean,
      bufferSize              |-> Len(m.trainingDataBuffer) ]

\* i * x for a whole number i: 0 * Infinity is NaN
TimesWhole(i, x) ==
    IF IsNaN(x) THEN NaN
    ELSE IF Abs(x) = Infinity THEN (IF i = 0 THEN NaN ELSE x)
    ELSE i * x

\* the entry generateSpeedCurve pushes for one speed
CurveEntry(m, speed, fuelData, cleanFuelData, frLevel) ==
    [ speed      |-> RoundToStep(speed, Scale \div 10),
      fuelRate   |-> RoundToStep(fuelData.fuelRate, Scale \div 100),
      cost       |-> RoundToStep(fuelData.cost, Scale \div 100),
      frLevel    |-> frLevel,
      confidence |-> MathRound(m.confidence),
      extraFuel  |-> RoundToStep(Minus(fuelData.fuelRate, cleanFuelData.fuelRate),
                                 Scale \div 100) ]

CurveEntryAt(m, p, speed, frLevel) ==
    CurveEntry(m, speed, EstimateFuelRate(p, speed, frLevel),
               EstimateFuelRate(p, speed, 0), frLevel)

\* the loop of generateSpeedCurve: speed = minSpeed + i * speedStep for
\* i = 0 .. steps - 1
CurveOfStep(m, p, minSpeed, speedStep, steps) ==
    [ k \in 1 .. steps |->
        CurveEntryAt(m, p, Plus(minSpeed, TimesWhole(k - 1, speedStep)),
                     EstimateFRLevel(m.daysSinceClean, m.foulingAccumulationRate)) ]

\* generateSpeedCurve(minSpeed, maxSpeed, steps), steps a whole number
GenerateSpeedCurve(m, p, minSpeed, maxSpeed, steps) ==
    CurveOfStep(m, p, minSpeed,
                Over(Minus(maxSpeed, minSpeed), (steps - 1) * Scale), steps)

----------------------------------------------------------------------------
(* Calls and their outcomes                                                *)

\* the physics object after solveAlphaBeta result r: untouched when it threw
CacheOrThrow(p, r) ==
    [threw |-> r.threw, physics |-> IF r.threw THEN p ELSE CacheAlphaBeta(p, r)]

\* solveAlphaBeta on the vessel's own costs and speeds, as the engine's
\* constructor and calculateBaseCost call it
SolveOwn(p) ==
    CacheOrThrow(p, SolveAlphaBeta(p, p.costEco, p.costFull, p.ecoSpeed, p.fullSpeed))

\* "if (this.alpha === null || this.beta === null) this.solveAlphaBeta(...)"
EnsureSolved(p) ==
    IF p.solved THEN [threw |-> FALSE, physics |-> p] ELSE SolveOwn(p)

\* validateVesselData(): the object { isValid, errors } it returns, errors
\* being the number of messages
ValidateVesselData(p) ==
    [ isValid |-> /\ ~(Falsy(p.length) \/ p.length <= 0)
                  /\ ~(Falsy(p.beam) \/ p.beam <= 0)
                  /\ ~(Falsy(p.draft) \/ p.draft <= 0)
                  /\ ~(Falsy(p.cb) \/ p.cb <= 0 \/ p.cb > Scale)
                  /\ ~(p.ecoSpeed >= p.fullSpeed),
      errors  |-> (IF Falsy(p.length) \/ p.length <= 0 THEN 1 ELSE 0)
                + (IF Falsy(p.beam) \/ p.beam <= 0 THEN 1 ELSE 0)
                + (IF Falsy(p.draft) \/ p.draft <= 0 THEN 1 ELSE 0)
                + (IF Falsy(p.cb) \/ p.cb <= 0 \/ p.cb > Scale THEN 1 ELSE 0)
                + (IF p.ecoSpeed >= p.fullSpeed THEN 1 ELSE 0) ]

\* validationErrors.length, validationErrors being that object: undefined,
\* which a comparison takes as NaN
LengthOfObject(obj) == NaN

\* the vesselData the creation route builds from the request body
VesselDataOf(body) == [body EXCEPT !.wave_exp = OrElse(body.wave_exp, 4500)]

\* the creation route from createVesselWithModel on: the rows are written,
\* then new AdaptiveFoulingModel(vessel) throws when solveAlphaBeta does
CreateAndConstruct(vesselData, solved) ==
    [ status |-> IF solved.threw THEN 500 ELSE 201, persisted |-> TRUE,
      engine |-> ~solved.threw, vessel |-> vesselData ]

\* the response of the creation route and what it has done by then
CreateVessel(body) ==
    IF \/ Falsy(body.name) \/ Falsy(body.length) \/ Falsy(body.beam)
       \/ Falsy(body.draft) \/ Falsy(body.cb) \/ Falsy(body.eco_speed)
       \/ Falsy(body.full_speed) \/ Falsy(body.cost_eco) \/ Falsy(body.cost_full)
       \/ Falsy(body.last_clean_date)
      THEN [status |-> 400, persisted |-> FALSE, engine |-> FALSE, vessel |-> body]
    ELSE IF Gt(LengthOfObject(ValidateVesselData(NewFoulingPhysics(VesselDataOf(body)))), 0)
      THEN [status |-> 400, persisted |-> FALSE, engine |-> FALSE, vessel |-> body]
    ELSE IF ~Falsy(body.next_clean_date) /\ body.next_clean_date <= body.last_clean_date
      THEN [status |-> 400, persisted |-> FALSE, engine |-> FALSE, vessel |-> body]
    ELSE CreateAndConstruct(VesselDataOf(body),
                            SolveOwn(NewFoulingPhysics(VesselDataOf(body))))

\* the vessel of the engine specifications: the cruise ship preset, with
\* its full speed 13.8 and wave exponent 4.6 taken as 14 and 4.5
TheVessel ==
    [ length |-> 93 * Scale, beam |-> 16 * Scale, draft |-> 5200, cb |-> 620,
      displacement |-> 0, wave_exp |-> 4500, eco_speed |-> 10 * Scale,
      full_speed |-> 14 * Scale, cost_eco |-> 1600 * Scale,
      cost_full |-> 4200 * Scale ]

\* the physics object the AdaptiveFoulingModel constructor builds and solves
ThePhysics == SolveOwn(NewFoulingPhysics(TheVessel)).physics

\* bound of the model: accepted readings (saveModelState calls) per behaviour
MaxReadings == 3

\* the row as saveModelState of earlier requests left it after n readings
RowAfterReadings(n) ==
    SavedColumns([NewAdaptiveFoulingModel(InitialRow, 0) EXCEPT
                     !.correctionFactor = NaN, !.confidence = NaN,
                     !.trainingDataCount = n])

InitialRows == {InitialRow, RowAfterReadings(7), RowAfterReadings(8)}

\* "new Date()": the day of the requests, and their hour, 15:00 of that day
Today == 1000

Now == 24 * Today + 15

\* calculateDaysSinceClean(lastCleanDate): dates are day numbers, 0 for a
\* date that is absent; a date is the midnight its day starts with
CalculateDaysSinceClean(lastCleanDate) ==
    IF Falsy(lastCleanDate) THEN 0
    ELSE MathMax(0, (Now - 24 * lastCleanDate) \div 24)

DaysSinceClean == {20, 65, 125, 275}

\* the vessel's last_clean_date, so many days before today
LastCleanDates == {Today - days : days \in DaysSinceClean}

ActualInputs == {-1 * Scale, 0, 1500 * Scale}

SpeedInputs == {10 * Scale, 14 * Scale}

ReadingWeather == {"storm"}

WeatherInputs == {"undefined", "calm", "moderate", "rough", "storm", "fog"}

\* <<minSpeed, maxSpeed, steps>> of generateSpeedCurve: its defaults, the
\* chart of eight to sixteen knots in five points, and sweeps of one and
\* two points
CurveInputs ==
    { <<6 * Scale, 20 * Scale, 15>>, <<8 * Scale, 16 * Scale, 5>>,
      <<7 * Scale, 16 * Scale, 15>>, <<8 * Scale, 16 * Scale, 4>>,
      <<8 * Scale, 16 * Scale, 2>>, <<8 * Scale, 16 * Scale, 1>>,
      <<6 * Scale, 20 * Scale, 1>> }

\* the sweeps asked of the instance that also takes readings
ShortCurveInputs == {c \in CurveInputs : c[3] <= 2}

Instances == {1, 2}

\* no instance constructed
NoModel == [NewAdaptiveFoulingModel(NoRow, 0) EXCEPT !.pc = "none"]

NoCall ==
    [op |-> "none", instance |-> 0, threw |-> FALSE, args |-> <<>>,
     result |-> [returned |-> "nothing"]]

\* bound of the model: vessels created per behaviour
MaxVessels == 2

\* the database: the vessel's fouling_models row, its last_clean_date, the
\* number of saveModelState calls made, the vessels created since, and the
\* number of fuel_readings rows inserted since
TheDatabase(row, lastCleanDate) ==
    [ row |-> row, lastCleanDate |-> lastCleanDate, writes |-> 0,
      vessels |-> <<>>, readings |-> 0 ]

\* new AdaptiveFoulingModel(vessel): loadModelState and the defaults
Construct(i) ==
    /\ model' = [model EXCEPT ![i] = NewAdaptiveFoulingModel(db.row, CalculateDaysSinceClean(db.lastCleanDate))]
    /\ call' = [op |-> "new", instance |-> i, threw |-> FALSE, args |-> <<>>,
                result |-> [returned |-> "object"]]
    /\ UNCHANGED <<physics, db>>

\* updateFromReading(actualFuelRate, speed, weather), saveModelState included
UpdateFromReading(i, actualFuelRate, speed, weather) ==
    /\ model[i].pc = "constructed"
    /\ IF InvalidFuelRate(actualFuelRate)
         THEN /\ call' = [ op |-> "updateFromReading", instance |-> i,
                           threw |-> FALSE,
                           args |-> <<actualFuelRate, speed, weather>>,
                           result |-> [returned |-> "undefined"] ]
              /\ UNCHANGED <<physics, model, db>>
         ELSE /\ db.writes < MaxReadings
              /\ \E learned \in {Learn(model[i], physics, actualFuelRate, speed, weather)} :
                    /\ model' = [model EXCEPT ![i] = learned]
                    /\ db' = [db EXCEPT !.row = SaveModelState(learned, db.row),
                                        !.writes = db.writes + 1]
                    /\ call' = [ op |-> "updateFromReading", instance |-> i,
                                 threw |-> FALSE,
                                 args |-> <<actualFuelRate, speed, weather>>,
                                 result |->
                                   [ returned |-> "object",
                                     error |-> learned.trainingDataBuffer[
                                                 Len(learned.trainingDataBuffer)].error,
                                     correctionFactor |-> learned.correctionFactor,
                                     confidence |-> learned.confidence ] ]
              /\ UNCHANGED physics

\* a handler that holds on to the engine of the request before
InstanceOfRequestKept(d, held) ==
    IF held.pc = "constructed" THEN held
    ELSE NewAdaptiveFoulingModel(d.row, CalculateDaysSinceClean(d.lastCleanDate))

\* "const adaptiveModel = new AdaptiveFoulingModel(vessel)" in the handler of
\* POST /readings: an engine of its own for each request, whatever engine
\* the request before had (held)
InstanceOfRequest(d, held) ==
    NewAdaptiveFoulingModel(d.row, CalculateDaysSinceClean(d.lastCleanDate))

\* POST /readings: the checks of the body, the fuel_readings row, and the
\* update of the adaptive model by an engine built for the request; the
\* engine is kept as instance 2 for inspection
PostReading(fuel_rate, fuel_unit, speed, weather_condition) ==
    IF \/ Falsy(fuel_rate) \/ Falsy(speed)
       \/ weather_condition = "undefined"
       \/ fuel_rate <= 0
       \/ speed <= 0 \/ speed > 50 * Scale
       \/ weather_condition \notin {"calm", "moderate", "rough", "storm"}
       \/ fuel_unit \notin {"L/hr", "$/hr"}
      THEN /\ call' = [ op |-> "POST /readings", instance |-> 0, threw |-> FALSE,
                         args |-> <<fuel_rate, fuel_unit, speed, weather_condition>>,
                         result |-> [returned |-> "response", status |-> 400] ]
           /\ UNCHANGED <<physics, model, db>>
      ELSE /\ db.writes < MaxReadings
           /\ \E learned \in
                 { Learn(InstanceOfRequest(db, model[2]), physics,
                         IF fuel_unit = "$/hr" THEN Over(fuel_rate, 2500)
                         ELSE fuel_rate,
                         speed, weather_condition) } :
                 /\ model' = [model EXCEPT ![2] = learned]
                 /\ db' = [db EXCEPT !.row = SaveModelState(learned, db.row),
                                     !.writes = db.writes + 1,
                                     !.readings = db.readings + 1]
           /\ call' = [ op |-> "POST /readings", instance |-> 2, threw |-> FALSE,
                         args |-> <<fuel_rate, fuel_unit, speed, weather_condition>>,
                         result |-> [returned |-> "response", status |-> 201] ]
           /\ UNCHANGED physics

\* a predict that counts its calls in trainingDataCount
PredictCallCounting(i, speed, weather) ==
    /\ model[i].pc = "constructed"
    /\ \E prediction \in {Predict(model[i], physics, speed, weather)} :
          call' = [ op |-> "predict", instance |-> i, threw |-> FALSE,
                    args |-> <<speed, weather>>,
                    result |-> [ returned |-> "number",
                                 value |-> prediction.predicted,
                                 components |-> prediction ] ]
    /\ model' = [model EXCEPT ![i].trainingDataCount = @ + 1]
    /\ UNCHANGED <<physics, db>>

\* predict(speed, weather): the Number it returns, and the components
\* object predict(speed, weather, true) returns in its place
PredictCall(i, speed, weather) ==
    /\ model[i].pc = "constructed"
    /\ \E prediction \in {Predict(model[i], physics, speed, weather)} :
          call' = [ op |-> "predict", instance |-> i, threw |-> FALSE,
                    args |-> <<speed, weather>>,
                    result |-> [ returned |-> "number",
                                 value |-> prediction.predicted,
                                 components |-> prediction ] ]
    /\ UNCHANGED <<physics, model, db>>

\* recommendCleaning()
RecommendCleaningCall(i) ==
    /\ model[i].pc = "constructed"
    /\ call' = [ op |-> "recommendCleaning", instance |-> i, threw |-> FALSE,
                 args |-> <<>>,
                 result |-> [ returned |-> "object",
                              value |-> RecommendCleaning(model[i], physics) ] ]
    /\ UNCHANGED <<physics, model, db>>

\* generateSpeedCurve(minSpeed, maxSpeed, steps)
GenerateSpeedCurveCall(i, minSpeed, maxSpeed, steps) ==
    /\ model[i].pc = "constructed"
    /\ call' = [ op |-> "generateSpeedCurve", instance |-> i, threw |-> FALSE,
                 args |-> <<minSpeed, maxSpeed, steps>>,
                 result |-> [ returned |-> "array",
                              value |-> GenerateSpeedCurve(model[i], physics,
                                                           minSpeed, maxSpeed, steps) ] ]
    /\ UNCHANGED <<physics, model, db>>

\* getModelStatistics()
GetModelStatisticsCall(i) ==
    /\ model[i].pc = "constructed"
    /\ call' = [ op |-> "getModelStatistics", instance |-> i, threw |-> FALSE,
                 args |-> <<>>,
                 result |-> [ returned |-> "object",
                              value |-> GetModelStatistics(model[i], physics) ] ]
    /\ UNCHANGED <<physics, model, db>>

\* an update that also puts the fouling_models row back to its initial values
UpdateVesselResetting(d, body) ==
    [d EXCEPT !.lastCleanDate = body.last_clean_date, !.row = InitialRow]

\* the updateVessel statement: of the columns it sets, last_clean_date is
\* the one the engine reads
UpdateVesselStatement(d, body) ==
    [d EXCEPT !.lastCleanDate = body.last_clean_date]

\* PUT /api/vessels/:id for the engine's vessel, the body repeating the
\* vessel's other columns.  name and last_clean_date are NOT NULL: without
\* one of them the UPDATE fails and the answer is 500.  With
\* last_clean_date the route then builds an engine and drops it.
UpdateVesselCall(body) ==
    /\ db' = IF Falsy(body.name) \/ Falsy(body.last_clean_date)
               THEN db ELSE UpdateVesselStatement(db, body)
    /\ call' = [ op |-> "updateVessel", instance |-> 0, threw |-> FALSE,
                 args |-> <<body.last_clean_date>>,
                 result |-> [ returned |-> "response",
                              status |-> IF Falsy(body.name) \/ Falsy(body.last_clean_date)
                                           THEN 500 ELSE 200 ] ]
    /\ UNCHANGED <<physics, model>>

\* POST /api/vessels with the request body `body`: createVesselWithModel
\* writes the vessel row and its fouling_models row in one transaction
CreateVesselCall(body) ==
    /\ \E outcome \in {CreateVessel(body)} :
          /\ outcome.persisted => Len(db.vessels) < MaxVessels
          /\ db' = IF outcome.persisted
                     THEN [db EXCEPT !.vessels =
                             Append(@, [vessel |-> outcome.vessel, model |-> InitialRow])]
                     ELSE db
          /\ call' = [ op |-> "createVessel", instance |-> 0, threw |-> FALSE,
                       args |-> <<body>>,
                       result |-> [ returned |-> "response",
                                    status |-> outcome.status,
                                    engine |-> outcome.engine ] ]
    /\ UNCHANGED <<physics, model>>

\* estimateFRLevel(daysSinceClean)
EstimateFRLevelCall(i, days) ==
    /\ model[i].pc = "constructed"
    /\ call' = [ op |-> "estimateFRLevel", instance |-> i, threw |-> FALSE,
                 args |-> <<days>>,
                 result |-> [ returned |-> "number",
                              value |-> EstimateFRLevel(days, model[i].foulingAccumulationRate) ] ]
    /\ UNCHANGED <<physics, model, db>>

\* solveAlphaBeta(ecoCost, fullCost, ecoSpeed, fullSpeed)
SolveAlphaBetaCall(ecoCost, fullCost, ecoSpeed, fullSpeed) ==
    /\ \E solved \in {CacheOrThrow(physics, SolveAlphaBeta(physics, ecoCost, fullCost, ecoSpeed, fullSpeed))} :
          /\ physics' = solved.physics
          /\ call' = [ op |-> "solveAlphaBeta", instance |-> 0,
                       threw |-> solved.threw,
                       args |-> <<ecoCost, fullCost, ecoSpeed, fullSpeed>>,
                       result |-> IF solved.threw THEN [returned |-> "nothing"]
                                  ELSE [ returned |-> "object",
                                         alphaNum |-> solved.physics.alphaNum,
                                         betaNum |-> solved.physics.betaNum,
                                         det |-> solved.physics.det ] ]
    /\ UNCHANGED <<model, db>>

\* calculateBaseCost(speed)
CalculateBaseCostCall(speed) ==
    /\ \E solved \in {EnsureSolved(physics)} :
          /\ physics' = solved.physics
          /\ call' = [ op |-> "calculateBaseCost", instance |-> 0,
                       threw |-> solved.threw, args |-> <<speed>>,
                       result |-> IF solved.threw THEN [returned |-> "nothing"]
                                  ELSE [ returned |-> "number",
                                         value |-> CalculateBaseCost(solved.physics, speed) ] ]
    /\ UNCHANGED <<model, db>>

\* calculateCostAt(speed, frLevel)
CalculateCostAtCall(speed, frLevel) ==
    /\ \E solved \in {EnsureSolved(physics)} :
          /\ physics' = solved.physics
          /\ call' = [ op |-> "calculateCostAt", instance |-> 0,
                       threw |-> solved.threw, args |-> <<speed, frLevel>>,
                       result |-> IF solved.threw THEN [returned |-> "nothing"]
                                  ELSE [ returned |-> "object",
                                         value |-> CalculateCostAt(solved.physics, speed, frLevel) ] ]
    /\ UNCHANGED <<model, db>>

\* calculateConfidenceIntervals(speed, frLevel)
CalculateConfidenceIntervalsCall(speed, frLevel) ==
    /\ \E solved \in {EnsureSolved(physics)} :
          /\ physics' = solved.physics
          /\ call' = [ op |-> "calculateConfidenceIntervals", instance |-> 0,
                       threw |-> solved.threw, args |-> <<speed, frLevel>>,
                       result |-> IF solved.threw THEN [returned |-> "nothing"]
                                  ELSE [ returned |-> "object",
                                         value |-> ConfidenceIntervals(
                                                      CalculateCostAt(solved.physics,
                                                                      speed, frLevel)) ] ]
    /\ UNCHANGED <<model, db>>

----------------------------------------------------------------------------
(* One engine instance serving the requests for a vessel                   *)

Init ==
    /\ physics = ThePhysics
    /\ \E row \in InitialRows, date \in LastCleanDates :
          /\ db = TheDatabase(row, date)
          /\ model = [i \in Instances |->
                        IF i = 1
                          THEN NewAdaptiveFoulingModel(row, CalculateDaysSinceClean(date))
                          ELSE NoModel]
    /\ call = NoCall

Next ==
    \/ Construct(1)
    \/ \E a \in ActualInputs, s \in SpeedInputs, w \in ReadingWeather :
          UpdateFromReading(1, a, s, w)
    \/ \E s \in SpeedInputs, w \in WeatherInputs : PredictCall(1, s, w)
    \/ RecommendCleaningCall(1)
    \/ \E c \in ShortCurveInputs : GenerateSpeedCurveCall(1, c[1], c[2], c[3])
    \/ GetModelStatisticsCall(1)

Spec == Init /\ [][Next]_vars

----------------------------------------------------------------------------
(* Two request cycles for the same vessel, each loading the row into its   *)
(* own instance and saving it after its reading                            *)

RaceActualInputs == {0, 1500 * Scale}

InitRace ==
    /\ physics = ThePhysics
    /\ \E row \in InitialRows, date \in LastCleanDates : db = TheDatabase(row, date)
    /\ model = [i \in Instances |-> NoModel]
    /\ call = NoCall

NextRace ==
    \E i \in Instances :
       \/ Construct(i)
       \/ \E a \in RaceActualInputs, s \in SpeedInputs, w \in ReadingWeather :
             UpdateFromReading(i, a, s, w)

SpecRace == InitRace /\ [][NextRace]_vars

----------------------------------------------------------------------------
(* The physics model and the fouling level estimate as functions of their  *)
(* inputs                                                                  *)

CostInputs == {-1600 * Scale, 1600 * Scale}

VesselSpeedInputs == {-10 * Scale, 8 * Scale, 10 * Scale, 14 * Scale}

WaveExpInputs == {0, 3000, 4000, 4500}

VesselInputs ==
    { [ length |-> 93 * Scale, beam |-> 16 * Scale, draft |-> 5200, cb |-> 620,
        displacement |-> 0, wave_exp |-> w, eco_speed |-> es, full_speed |-> fs,
        cost_eco |-> ec, cost_full |-> fc ] :
        w \in WaveExpInputs, es \in VesselSpeedInputs, fs \in VesselSpeedInputs,
        ec \in CostInputs, fc \in {4200 * Scale} }

RateInputs == {500, 1000, 2000}

DayInputs ==
    {0, 15, 29, 30, 35, 59, 60, 65, 119, 120, 125, 135, 185, 269, 270, 275, 540}

CallSpeedInputs ==
    {-5 * Scale, 0, 8 * Scale, 10 * Scale, 14 * Scale, 20 * Scale, 30 * Scale}

LevelInputs == {-1, 0, 3, 5, 6}

InitPure ==
    /\ \E v \in VesselInputs : physics = NewFoulingPhysics(v)
    /\ \E rate \in RateInputs :
          model = [i \in Instances |->
                     IF i = 1
                       THEN NewAdaptiveFoulingModel(
                              [InitialRow EXCEPT !.fouling_accumulation_rate = rate], 0)
                       ELSE NoModel]
    /\ db = TheDatabase(InitialRow, 0)
    /\ call = NoCall

NextPure ==
    \/ \E ec \in {physics.costEco, 0}, fc \in {physics.costFull, 0},
          es \in {physics.ecoSpeed, 0}, fs \in {physics.fullSpeed, 0} :
          SolveAlphaBetaCall(ec, fc, es, fs)
    \/ \E s \in CallSpeedInputs : CalculateBaseCostCall(s)
    \/ \E s \in CallSpeedInputs, l \in LevelInputs : CalculateCostAtCall(s, l)
    \/ \E d \in DayInputs : EstimateFRLevelCall(1, d)

SpecPure == InitPure /\ [][NextPure]_vars

----------------------------------------------------------------------------
(* The dashboard's requests: an instance is built from the row and asked   *)
(* for its speed curve and its statistics                                  *)

InitCurve ==
    /\ physics = ThePhysics
    /\ \E row \in InitialRows, date \in LastCleanDates :
          /\ db = TheDatabase(row, date)
          /\ model = [i \in Instances |->
                        IF i = 1
                          THEN NewAdaptiveFoulingModel(row, CalculateDaysSinceClean(date))
                          ELSE NoModel]
    /\ call = NoCall

NextCurve ==
    \/ Construct(1)
    \/ \E c \in CurveInputs : GenerateSpeedCurveCall(1, c[1], c[2], c[3])
    \/ GetModelStatisticsCall(1)

SpecCurve == InitCurve /\ [][NextCurve]_vars

----------------------------------------------------------------------------
(* Readings on the vessel and changes of its last-clean date               *)

\* no date, 200 days ago, today, and five days ahead
CleanDateInputs == {0, Today - 200, Today, Today + 5}

UpdateBodyInputs == {[name |-> 1, last_clean_date |-> date] : date \in CleanDateInputs}

NextClean ==
    \/ Construct(1)
    \/ \E a \in RaceActualInputs, w \in ReadingWeather :
          UpdateFromReading(1, a, 10 * Scale, w)
    \/ \E body \in UpdateBodyInputs : UpdateVesselCall(body)
    \/ GetModelStatisticsCall(1)

SpecClean == Init /\ [][NextClean]_vars

----------------------------------------------------------------------------
(* Vessel creation requests                                                *)

BodyInputs ==
    { [ name |-> 1, length |-> 93 * Scale, beam |-> 16 * Scale, draft |-> 5200,
        cb |-> 620, displacement |-> 0, wave_exp |-> 0,
        eco_speed |-> es, full_speed |-> fs, cost_eco |-> ec,
        cost_full |-> 4200 * Scale, last_clean_date |-> Today - 20,
        next_clean_date |-> nc ] :
        es \in {-10 * Scale, 0, 10 * Scale, 14 * Scale},
        fs \in {10 * Scale, 14 * Scale},
        ec \in {-1600 * Scale, 1600 * Scale},
        nc \in {0, Today - 20} }

InitCreate ==
    /\ physics = ThePhysics
    /\ model = [i \in Instances |-> NoModel]
    /\ db = TheDatabase(InitialRow, Today - 20)
    /\ call = NoCall

NextCreate == \E body \in BodyInputs : CreateVesselCall(body)

SpecCreate == InitCreate /\ [][NextCreate]_vars

----------------------------------------------------------------------------
(* One long-lived engine instance whose buffer is about to fill: the       *)
(* instance as n accepted readings, taken 20 days after the clean at 10    *)
(* and 14 knots in turn, have left it                                      *)

\* the data point updateFromReading(1500, speed, 'storm') stores at level 0
DataPointOfReading(k) ==
    [ actual |-> 1500 * Scale, predicted |-> NaN,
      speed |-> IF k % 2 = 1 THEN 10 * Scale ELSE 14 * Scale,
      weather |-> "storm", frLevel |-> 0, error |-> NaN ]

InstanceAfterReadings(row, n) ==
    [ NewAdaptiveFoulingModel(row, 20) EXCEPT
        !.correctionFactor = NaN, !.confidence = NaN,
        !.trainingDataCount = row.training_data_count + n,
        !.trainingDataBuffer =
            [k \in 1 .. n |-> DataPointOfReading(k)] ]

ReadingsBefore == {98, 99, 100}

InitWindow ==
    /\ physics = ThePhysics
    /\ \E n \in ReadingsBefore :
          /\ model = [i \in Instances |->
                        IF i = 1 THEN InstanceAfterReadings(InitialRow, n) ELSE NoModel]
          /\ db = TheDatabase(SavedColumns(InstanceAfterReadings(InitialRow, n)),
                              Today - 20)
    /\ call = NoCall

NextWindow ==
    \E a \in ActualInputs, s \in SpeedInputs, w \in ReadingWeather :
       UpdateFromReading(1, a, s, w)

SpecWindow == InitWindow /\ [][NextWindow]_vars

----------------------------------------------------------------------------
(* One long-lived engine instance built for a vessel that has no           *)
(* fouling_models row yet, as a script does that builds the engine from a  *)
(* vessel object of its own                                                *)

InitFirst ==
    /\ physics = ThePhysics
    /\ \E date \in LastCleanDates :
          /\ db = TheDatabase(NoRow, date)
          /\ model = [i \in Instances |->
                        IF i = 1
                          THEN NewAdaptiveFoulingModel(NoRow, CalculateDaysSinceClean(date))
                          ELSE NoModel]
    /\ call = NoCall

SpecFirst == InitFirst /\ [][NextWindow]_vars

----------------------------------------------------------------------------
(* The deployment: every reading is a request, and every request builds    *)
(* its own engine from the vessel and its row                              *)

\* the fuel rates: none, and 2080, the cost intended for ten knots in a
\* storm on a clean hull (1600 * 1.3)
NextRequests ==
    \E r \in {0, 2080 * Scale}, u \in {"L/hr", "$/hr", "kg/hr"}, s \in {10 * Scale, 60 * Scale}, w \in {"storm", "fog"} :
       PostReading(r, u, s, w)

SpecRequests == InitRace /\ [][NextRequests]_vars

----------------------------------------------------------------------------
(* The fouling impact and its confidence band over speeds up to the        *)
(* planing range, for vessels that pass validateVesselData                 *)

\* the vessels: the cruise ship preset, the same hull with an eco cost of
\* 800, and the same hull with an eco speed of 8 knots
InitImpact ==
    /\ \E v \in { TheVessel, [TheVessel EXCEPT !.cost_eco = 800 * Scale],
                   [TheVessel EXCEPT !.eco_speed = 8 * Scale] } :
          physics = NewFoulingPhysics(v)
    /\ model = [i \in Instances |-> NoModel]
    /\ db = TheDatabase(InitialRow, 0)
    /\ call = NoCall

\* speeds in knots, from rest to the planing range
NextImpact ==
    \E s \in {0, 2, 5, 8, 10, 14, 20, 21, 24, 30}, l \in LevelInputs :
       \/ CalculateCostAtCall(s * Scale, l)
       \/ CalculateConfidenceIntervalsCall(s * Scale, l)

SpecImpact == InitImpact /\ [][NextImpact]_vars

----------------------------------------------------------------------------
(* The claims                                                              *)

\* C1: after any sequence of updateFromReading calls on an engine,
\* correctionFactor is in [0.3, 3.0], foulingAccumulationRate is in
\* [0.5, 2.0] and confidence is in [0, 100].
C1_AdaptiveStateBounds ==
    \A i \in Instances :
       model[i].pc = "constructed" =>
          /\ model[i].correctionFactor \in 300 .. 3000
          /\ model[i].foulingAccumulationRate \in 500 .. 2000
          /\ model[i].confidence \in 0 .. (100 * Scale)

\* C2: updateFromReading with actualFuelRate <= 0 is a no-op: the instance
\* (correctionFactor, foulingAccumulationRate, confidence, count, buffer)
\* is unchanged, nothing is written to the database and nothing is thrown.
C2_InvalidReadingIsNoOp ==
    [][ (call'.op = "updateFromReading" /\ call'.args[1] <= 0)
           => /\ model' = model
              /\ db' = db
              /\ ~call'.threw
              /\ call'.result.returned = "undefined" ]_vars

C2_Witness ==
    /\ call.op = "updateFromReading"
    /\ call.args[1] <= 0
    /\ call.result.returned = "undefined"
    /\ Len(model[call.instance].trainingDataBuffer) > 0
    /\ db.writes > 0

\* C3: for every speed and weather, predict returns base x correctionFactor
\* x weatherMultiplier, where base is the .fouled figure of calculateCostAt
\* at the level estimateFRLevel gives for the current days since clean.
C3_PredictIsFouledTimesFactors ==
    call.op = "predict" =>
       call.result.value =
          Times(Times(CalculateCostAt(physics, call.args[1],
                          EstimateFRLevel(model[call.instance].daysSinceClean,
                              model[call.instance].foulingAccumulationRate)).fouled,
                      model[call.instance].correctionFactor),
                WeatherMultiplier(call.args[2]))

\* C4: estimateFRLevel returns the number of the thresholds 30, 60, 120,
\* 180, 270 that days x rate has reached; it is non-decreasing in days for
\* every rate; with rate 1.0 the days 0, 35, 65, 125, 185, 275 give the
\* levels 0, 1, 2, 3, 4, 5.
C4_LevelBuckets ==
    call.op = "estimateFRLevel" =>
       /\ call.result.value =
             Cardinality({t \in {30, 60, 120, 180, 270} :
                 call.args[1] * model[call.instance].foulingAccumulationRate >= t * Scale})
       /\ \A d \in DayInputs :
             d <= call.args[1] =>
                EstimateFRLevel(d, model[call.instance].foulingAccumulationRate)
                   <= call.result.value
       /\ model[call.instance].foulingAccumulationRate = Scale =>
             /\ call.args[1] = 0 => call.result.value = 0
             /\ call.args[1] = 35 => call.result.value = 1
             /\ call.args[1] = 65 => call.result.value = 2
             /\ call.args[1] = 125 => call.result.value = 3
             /\ call.args[1] = 185 => call.result.value = 4
             /\ call.args[1] = 275 => call.result.value = 5

C4_Witness ==
    /\ call.op = "estimateFRLevel"
    /\ call.args[1] = 135
    /\ model[call.instance].foulingAccumulationRate = 2000
    /\ call.result.value = 5

\* C5 as stated: for 0 < ecoSpeed < fullSpeed and 0 < ecoCost < fullCost
\* and any wave exponent, calculateBaseCost(ecoSpeed) is ecoCost and
\* calculateBaseCost(fullSpeed) is fullCost, within 0.5%.
C5_RoundTripAnyExponent ==
    ( /\ call.op = "calculateBaseCost"
      /\ 0 < physics.ecoSpeed /\ physics.ecoSpeed < physics.fullSpeed
      /\ 0 < physics.costEco /\ physics.costEco < physics.costFull )
    => /\ ~call.threw
       /\ call.args[1] = physics.ecoSpeed =>
             /\ ~IsNaN(call.result.value)
             /\ Abs(call.result.value - physics.costEco) <= physics.costEco \div 200
       /\ call.args[1] = physics.fullSpeed =>
             /\ ~IsNaN(call.result.value)
             /\ Abs(call.result.value - physics.costFull) <= physics.costFull \div 200

\* C5 as amended: the same for every wave exponent other than 3, where
\* the two equations are not independent.
C5_RoundTrip ==
    ( /\ call.op = "calculateBaseCost"
      /\ 0 < physics.ecoSpeed /\ physics.ecoSpeed < physics.fullSpeed
      /\ 0 < physics.costEco /\ physics.costEco < physics.costFull
      /\ physics.waveExp # 3 * Scale )
    => /\ ~call.threw
       /\ call.args[1] = physics.ecoSpeed =>
             /\ ~IsNaN(call.result.value)
             /\ Abs(call.result.value - physics.costEco) <= physics.costEco \div 200
       /\ call.args[1] = physics.fullSpeed =>
             /\ ~IsNaN(call.result.value)
             /\ Abs(call.result.value - physics.costFull) <= physics.costFull \div 200

C5_Witness ==
    /\ call.op = "calculateBaseCost"
    /\ physics.ecoSpeed = 8 * Scale /\ physics.fullSpeed = 14 * Scale
    /\ physics.costEco = 1600 * Scale /\ physics.costFull = 4200 * Scale
    /\ physics.waveExp = 4 * Scale
    /\ call.args[1] = physics.fullSpeed
    /\ ~call.threw
    /\ Abs(call.result.value - physics.costFull) <= 1

\* C6: recommendCleaning returns recommended = true exactly when the
\* current level is at least 3, or daysToBreakeven < 60, or annualSavings
\* is more than twice the cleaning cost; so it is true at levels 3, 4, 5.
C6_RecommendedRule ==
    call.op = "recommendCleaning" =>
       /\ call.result.value.currentFRLevel =
             EstimateFRLevel(model[call.instance].daysSinceClean,
                             model[call.instance].foulingAccumulationRate)
       /\ call.result.value.recommended <=>
             \/ call.result.value.currentFRLevel >= 3
             \/ Lt(IF Gt(CalculateExtraCostPerDay(model[call.instance], physics), 0)
                     THEN Over(cleaningCost * Scale,
                               CalculateExtraCostPerDay(model[call.instance], physics))
                     ELSE Infinity,
                   60 * Scale)
             \/ Gt(Times(CalculateExtraCostPerDay(model[call.instance], physics),
                         365 * Scale),
                   2 * cleaningCost * Scale)
       /\ call.result.value.currentFRLevel \in {3, 4, 5} => call.result.value.recommended

C6_Witness ==
    /\ call.op = "recommendCleaning"
    /\ call.result.value.currentFRLevel = 3
    /\ call.result.value.recommended
    /\ model[call.instance].trainingDataCount > 0

\* C7: when two request cycles both load the row before either saves, the
\* row after both saves is the last writer's: its count is the loaded count
\* plus one, and the first writer's change is gone.  When the second cycle
\* loads after the first has saved, the count is raised by two.
C7_LastWriterWins ==
    \A i, j \in Instances :
       ( /\ i # j
         /\ call.op = "updateFromReading" /\ call.instance = j
         /\ call.result.returned = "object"
         /\ model[i].pc = "constructed"
         /\ model[i].trainingDataCount = model[i].modelState.training_data_count + 1
         /\ model[j].trainingDataCount = model[j].modelState.training_data_count + 1 )
       => /\ db.row = SavedColumns(model[j])
          /\ model[j].modelState = model[i].modelState =>
                db.row.training_data_count = model[i].modelState.training_data_count + 1
          /\ model[j].modelState = SavedColumns(model[i]) =>
                db.row.training_data_count = model[i].modelState.training_data_count + 2

C7_Witness ==
    /\ call.op = "updateFromReading" /\ call.instance = 2
    /\ call.result.returned = "object"
    /\ model[1].pc = "constructed"
    /\ model[1].modelState = model[2].modelState
    /\ model[1].trainingDataCount = model[1].modelState.training_data_count + 1
    /\ model[2].trainingDataCount = model[2].modelState.training_data_count + 1
    /\ db.writes = 2
    /\ db.row.training_data_count = model[1].modelState.training_data_count + 1

\* C9: solveAlphaBeta throws, and caches no coefficients, whenever ecoSpeed
\* equals fullSpeed or any of ecoCost, fullCost, ecoSpeed, fullSpeed is
\* zero or negative.
C9_CalibrateRejectsNonPositive ==
    ( /\ call.op = "solveAlphaBeta"
      /\ \/ call.args[3] = call.args[4]
         \/ call.args[1] <= 0 \/ call.args[2] <= 0
         \/ call.args[3] <= 0 \/ call.args[4] <= 0 )
    => call.threw

\* C10: on the physics model of a valid vessel, calculateCostAt and
\* calculateBaseCost reject a zero or negative speed, and calculateCostAt
\* rejects a fouling level outside 0..5, in place of clamping or defaulting.
C10_PhysicsRejectsOutOfDomain ==
    ( /\ 0 < physics.ecoSpeed /\ physics.ecoSpeed < physics.fullSpeed
      /\ 0 < physics.costEco /\ physics.costEco < physics.costFull
      /\ \/ (call.op = "calculateBaseCost" /\ call.args[1] <= 0)
         \/ (call.op = "calculateCostAt"
               /\ (call.args[1] <= 0 \/ call.args[2] \notin 0 .. 5)) )
    => call.threw

\* C11: at every speed, calculateCostAt at fouling level 0 returns
\* foulingIncrease 0 and, its base cost being a number, a fouled cost equal
\* to the clean cost.
C11_CleanHullNoIncrease ==
    ( /\ call.op = "calculateCostAt" /\ ~call.threw
      /\ call.args[2] = 0 )
    => /\ call.result.value.foulingIncrease = 0
       /\ ~IsNaN(call.result.value.clean) =>
             call.result.value.fouled = call.result.value.clean

C11_Witness ==
    /\ call.op = "calculateCostAt" /\ ~call.threw
    /\ call.args = <<14 * Scale, 0>>
    /\ physics.ecoSpeed = 10 * Scale /\ physics.fullSpeed = 14 * Scale
    /\ physics.costEco = 1600 * Scale /\ physics.waveExp = 4500
    /\ call.result.value.clean > 4000 * Scale
    /\ call.result.value.fouled = call.result.value.clean

\* C12: at a fixed speed the foulingIncrease calculateCostAt returns does
\* not fall as the level rises through 0..5; at a fixed level it does not
\* rise with the speed, for speeds whose Froude number is above 0.15.
C12_IncreaseMonotone ==
    ( /\ call.op = "calculateCostAt" /\ ~call.threw
      /\ call.args[2] \in 0 .. 5 )
    => /\ \A frLevel \in call.args[2] .. 5 :
             Le(call.result.value.foulingIncrease,
                CalculateCostAt(physics, call.args[1], frLevel).foulingIncrease)
       /\ Gt(Froude(physics, call.args[1]), 150) =>
             \A speed \in {s \in CallSpeedInputs : s >= call.args[1]} :
                Le(CalculateCostAt(physics, speed, call.args[2]).foulingIncrease,
                   call.result.value.foulingIncrease)

C12_Witness ==
    /\ call.op = "calculateCostAt" /\ ~call.threw
    /\ call.args = <<14 * Scale, 3>>
    /\ Gt(Froude(physics, call.args[1]), 150)
    /\ call.result.value.foulingIncrease < 600
    /\ call.result.value.foulingIncrease >
          CalculateCostAt(physics, 20 * Scale, 3).foulingIncrease
    /\ CalculateCostAt(physics, 30 * Scale, 3).foulingIncrease = 180
    /\ call.result.value.foulingIncrease <
          CalculateCostAt(physics, 14 * Scale, 5).foulingIncrease

\* C13: predict applies the multiplier 1.0, 1.05, 1.15, 1.30 for calm,
\* moderate, rough, storm, and the moderate 1.05 when no weather is passed
\* or the weather is none of the four.
C13_WeatherDefaultsToModerate ==
    call.op = "predict" =>
       call.result.components.weatherMultiplier =
          CASE call.args[2] = "calm" -> 1000
            [] call.args[2] = "moderate" -> 1050
            [] call.args[2] = "rough" -> 1150
            [] call.args[2] = "storm" -> 1300
            [] OTHER -> 1050

\* C14: trainingDataBuffer never holds more than maxBufferSize = 100
\* records; an accepted updateFromReading appends its record at the end,
\* and when that would make 101 it removes exactly the oldest, the others
\* keeping their order.
C14_WindowIsFifo ==
    [][ ( /\ call'.op = "updateFromReading"
          /\ call'.result.returned = "object" )
        => /\ Len(model'[1].trainingDataBuffer) <= maxBufferSize
           /\ model'[1].trainingDataBuffer[Len(model'[1].trainingDataBuffer)].speed
                 = call'.args[2]
           /\ IF Len(model[1].trainingDataBuffer) < maxBufferSize
                THEN SubSeq(model'[1].trainingDataBuffer, 1,
                            Len(model'[1].trainingDataBuffer) - 1)
                       = model[1].trainingDataBuffer
                ELSE /\ Len(model'[1].trainingDataBuffer) = maxBufferSize
                     /\ SubSeq(model'[1].trainingDataBuffer, 1, maxBufferSize - 1)
                           = Tail(model[1].trainingDataBuffer) ]_vars

C14_Witness ==
    /\ call.op = "updateFromReading" /\ call.result.returned = "object"
    /\ Len(model[1].trainingDataBuffer) = maxBufferSize
    /\ model[1].trainingDataCount = maxBufferSize + 2
    /\ model[1].trainingDataBuffer[1] = DataPointOfReading(3)
    /\ model[1].trainingDataBuffer[maxBufferSize].speed = call.args[2]

\* C15: when updateFromReading comes to retrain (shouldRetrain is true) and
\* fewer than 3 records of the buffer have frLevel > 0, the retraining is
\* skipped: foulingAccumulationRate stays as it was and updateFromReading
\* returns its result without throwing.
C15_RetrainSkippedBelowThree ==
    [][ ( /\ call'.op = "updateFromReading"
          /\ call'.result.returned = "object"
          /\ ShouldRetrain(model'[call'.instance])
          /\ Len(SelectSeq(model'[call'.instance].trainingDataBuffer,
                           LAMBDA d : d.frLevel > 0)) < 3 )
        => /\ model'[call'.instance].foulingAccumulationRate
                 = model[call'.instance].foulingAccumulationRate
           /\ ~call'.threw ]_vars

C15_Witness ==
    /\ call.op = "updateFromReading" /\ call.result.returned = "object"
    /\ ShouldRetrain(model[1])
    /\ model[1].trainingDataCount = 10
    /\ Len(model[1].trainingDataBuffer) = 2
    /\ model[1].trainingDataBuffer[1].frLevel = 2
    /\ model[1].trainingDataBuffer[2].frLevel = 2
    /\ model[1].foulingAccumulationRate = Scale

\* C16: predict, recommendCleaning, generateSpeedCurve and
\* getModelStatistics leave the instance (correctionFactor,
\* foulingAccumulationRate, confidence, trainingDataCount,
\* trainingDataBuffer) as it was and write nothing to the fouling_models
\* row; only updateFromReading changes them.
C16_OnlyReadingsMutate ==
    [][ /\ call'.op \in {"predict", "recommendCleaning", "generateSpeedCurve",
                         "getModelStatistics"}
           => (model' = model /\ db' = db)
        /\ (model' # model \/ db' # db) =>
              call'.op \in {"updateFromReading", "new"} ]_vars

C16_Witness ==
    /\ call.op = "generateSpeedCurve"
    /\ Len(call.result.value) = 2
    /\ Len(model[1].trainingDataBuffer) = 2
    /\ db.writes = 2
    /\ db.row = SavedColumns(model[1])

\* C17: for minSpeed < maxSpeed and steps >= 1, generateSpeedCurve returns
\* exactly `steps` entries; their speeds run from minSpeed (to maxSpeed,
\* when there are two entries or more) in equal steps, to the rounding of
\* one decimal; the fuelRate and extraFuel of each entry are numbers.
C17_CurveIsEvenAndNumeric ==
    ( /\ call.op = "generateSpeedCurve"
      /\ call.args[1] < call.args[2] /\ call.args[3] >= 1 )
    => /\ Len(call.result.value) = call.args[3]
       /\ call.result.value[1].speed = call.args[1]
       /\ call.args[3] >= 2 => call.result.value[call.args[3]].speed = call.args[2]
       /\ \A k \in 1 .. Len(call.result.value) :
             /\ ~IsNaN(call.result.value[k].speed)
             /\ ~IsNaN(call.result.value[k].fuelRate)
             /\ ~IsNaN(call.result.value[k].extraFuel)
       /\ \A k \in 2 .. (Len(call.result.value) - 1) :
             Abs( (call.result.value[k + 1].speed - call.result.value[k].speed)
                - (call.result.value[k].speed - call.result.value[k - 1].speed) )
               <= 2 * (Scale \div 10)

\* C18: a creation request whose vessel is invalid for calibration
\* (eco_speed not below full_speed, or a speed or cost that is missing, zero
\* or negative) is answered with an error, no engine is constructed for it,
\* and no vessel row or fouling_models row of such a vessel is persisted.
C18_InvalidVesselRefused ==
    /\ ( /\ call.op = "createVessel"
         /\ \/ call.args[1].eco_speed >= call.args[1].full_speed
            \/ call.args[1].eco_speed <= 0 \/ call.args[1].full_speed <= 0
            \/ call.args[1].cost_eco <= 0 \/ call.args[1].cost_full <= 0 )
       => (call.result.status >= 400 /\ ~call.result.engine)
    /\ \A k \in 1 .. Len(db.vessels) :
          /\ 0 < db.vessels[k].vessel.eco_speed
          /\ db.vessels[k].vessel.eco_speed < db.vessels[k].vessel.full_speed
          /\ 0 < db.vessels[k].vessel.cost_eco
          /\ 0 < db.vessels[k].vessel.cost_full

C20_BaseCostClamps ==
    ( /\ call.op = "calculateBaseCost" /\ ~call.threw
      /\ physics.fullSpeed > 0 )
    => call.result.value =
          IF call.args[1] >= Times(physics.fullSpeed, 1200)
            THEN PowerLaw(physics, Times(physics.fullSpeed, 1200))
          ELSE IF call.args[1] <= Scale \div 10
            THEN PowerLaw(physics, Scale \div 10)
          ELSE PowerLaw(physics, call.args[1])

C20_Witness ==
    /\ call.op = "calculateBaseCost" /\ ~call.threw
    /\ call.args[1] = 20 * Scale
    /\ physics.ecoSpeed = 10 * Scale /\ physics.fullSpeed = 14 * Scale
    /\ physics.costEco = 1600 * Scale /\ physics.waveExp = 4500
    /\ call.result.value = PowerLaw(physics, 16800)
    /\ call.result.value > physics.costFull
    /\ call.result.value < PowerLaw(physics, 20 * Scale)

\* C21: recommendCleaning reports extraCostPerDay = max(0, (predict(ecoSpeed)
\* - clean cost at ecoSpeed) * 24), rounded, which is a number >= 0, and
\* daysToBreakeven = cleaningCost / extraCostPerDay when extraCostPerDay > 0
\* and Infinity when it is zero.
C21_ExtraCostIsNumber ==
    call.op = "recommendCleaning" =>
       /\ ~IsNaN(call.result.value.extraCostPerDay)
       /\ call.result.value.extraCostPerDay >= 0
       /\ call.result.value.extraCostPerDay =
             MathRound(MathMax(0,
                 Times(Minus(Times(CalculateCostAt(physics, physics.ecoSpeed,
                                       call.result.value.currentFRLevel).fouled,
                                   model[call.instance].correctionFactor),
                             CalculateCostAt(physics, physics.ecoSpeed, 0).clean),
                       24 * Scale)))
       /\ call.result.value.daysToBreakeven =
             IF call.result.value.extraCostPerDay > 0
               THEN MathRound(Over(cleaningCost * Scale,
                        CalculateExtraCostPerDay(model[call.instance], physics)))
               ELSE Infinity

C23_CorrectionUpdate ==
    [][ (call'.op = "updateFromReading" /\ call'.result.returned = "object")
          => LET m == model[call'.instance]
                 lr == Times(100, MathMax(500,
                           Minus(Scale, Over(m.confidence, 100 * Scale))))
                 predicted ==
                     Times(Times(CalculateCostAt(physics, call'.args[2],
                                     EstimateFRLevel(m.daysSinceClean,
                                         m.foulingAccumulationRate)).fouled,
                                 m.correctionFactor),
                           WeatherMultiplier(call'.args[3]))
                 signedError == Over(Minus(call'.args[1], predicted), predicted)
             IN /\ lr \in 50 .. 100
                /\ model'[call'.instance].correctionFactor =
                      MathMax(300, MathMin(3000,
                          Plus(Times(m.correctionFactor, Minus(Scale, lr)),
                               Times(Plus(Scale, Times(signedError, lr)), lr)))) ]_vars

\* C24: an accepted updateFromReading raises confidence by (0.15 -
\* |signedError|) * 100 * 0.5 when |signedError| < 0.15 and otherwise
\* lowers it by (|signedError| - 0.15) * 100 * 0.3, then clamps it to
\* [0, 100]; so confidence never rises on an error of 15% or more and never
\* falls on a smaller one.
C24_ConfidenceUpdate ==
    [][ (call'.op = "updateFromReading" /\ call'.result.returned = "object")
          => LET m == model[call'.instance]
                 predicted ==
                     Times(Times(CalculateCostAt(physics, call'.args[2],
                                     EstimateFRLevel(m.daysSinceClean,
                                         m.foulingAccumulationRate)).fouled,
                                 m.correctionFactor),
                           WeatherMultiplier(call'.args[3]))
                 absError == MathAbs(Over(Minus(call'.args[1], predicted), predicted))
             IN /\ model'[call'.instance].confidence \in 0 .. (100 * Scale)
                /\ model'[call'.instance].confidence =
                      UpdateConfidence(m.confidence, absError)
                /\ absError >= 150 => model'[call'.instance].confidence <= m.confidence
                /\ absError < 150 => model'[call'.instance].confidence >= m.confidence ]_vars

\* C25: within an accepted updateFromReading, retraining is attempted
\* exactly when, with the record appended, the count incremented and the
\* confidence updated, the count is a multiple of 10 or (confidence < 50
\* and the buffer holds at least 5 records): the rate after the call is
\* what one retrainModel makes of the rate before it when that holds and
\* the rate before it otherwise, and it is that rate the call saves.
C25_RetrainWhenDue ==
    [][ (call'.op = "updateFromReading" /\ call'.result.returned = "object")
          => LET before == model[call'.instance]
                 after == model'[call'.instance]
             IN /\ after.trainingDataCount = before.trainingDataCount + 1
                /\ Len(after.trainingDataBuffer) = Len(before.trainingDataBuffer) + 1
                /\ after.foulingAccumulationRate =
                      IF \/ after.trainingDataCount % 10 = 0
                         \/ /\ Lt(after.confidence, 50 * Scale)
                            /\ Len(after.trainingDataBuffer) >= 5
                        THEN RetrainModel(
                               [after EXCEPT !.foulingAccumulationRate =
                                                before.foulingAccumulationRate]
                             ).foulingAccumulationRate
                        ELSE before.foulingAccumulationRate
                /\ db'.row.fouling_accumulation_rate = after.foulingAccumulationRate ]_vars

C25_Witness ==
    /\ call.op = "updateFromReading" /\ call.result.returned = "object"
    /\ model[call.instance].trainingDataCount = 10
    /\ Len(model[call.instance].trainingDataBuffer) = 3
    /\ model[call.instance].trainingDataBuffer[1].frLevel > 0
    /\ model[call.instance].foulingAccumulationRate # Scale
    /\ db.row.training_data_count = 10
    /\ db.row.fouling_accumulation_rate = model[call.instance].foulingAccumulationRate

\* C26: an effective retraining (one that found at least three buffered
\* records of a fouling level above 0) sets foulingAccumulationRate to
\* clamp(rate * (1 + 0.5 * average of the levels' mean signed errors), 0.5,
\* 2.0), so a buffer of over-predictions lowers the rate.  Every reading of
\* this specification is an over-prediction: 1500 against a fouled cost of
\* at least 1600 times a weather factor of 1.3.
C26_RetrainFollowsSignedError ==
    [][ ( /\ call'.op = "updateFromReading" /\ call'.result.returned = "object"
          /\ model'[call'.instance].trainingDataCount % 10 = 0
          /\ Len(SelectSeq(model'[call'.instance].trainingDataBuffer,
                           LAMBDA d : d.frLevel > 0)) >= 3
          /\ \A k \in 1 .. Len(model'[call'.instance].trainingDataBuffer) :
                model'[call'.instance].trainingDataBuffer[k].actual < 1600 * Scale )
          => /\ model'[call'.instance].foulingAccumulationRate \in 500 .. 2000
             /\ model'[call'.instance].foulingAccumulationRate
                   <= model[call'.instance].foulingAccumulationRate ]_vars

\* C27: the speed reduction factor of calculateCostAt is 1.0 for a Froude
\* number up to 0.15, falls linearly above 0.15, has reached its floor of
\* 0.3 at Froude 0.35 and stays there; it is always within [0.3, 1.0].
C27_FloorReachedAtFroude035 ==
    (call.op = "calculateCostAt" /\ ~call.threw) =>
       /\ call.result.value.speedReduction \in 300 .. Scale
       /\ Froude(physics, call.args[1]) <= 150 =>
             call.result.value.speedReduction = Scale
       /\ Froude(physics, call.args[1]) > 150 =>
             call.result.value.speedReduction < Scale
       /\ Froude(physics, call.args[1]) >= 350 =>
             call.result.value.speedReduction = 300

\* C28: where every reading is handled by an engine built for the request
\* (load the row, one updateFromReading, save), the buffer holds exactly one
\* record at every retrain check, so the persisted foulingAccumulationRate
\* never changes, also when the count reaches a multiple of 10.
C28_RateFrozenAcrossRequests ==
    [][ (call'.op = "POST /readings" /\ call'.result.status = 201)
          => /\ Len(model'[2].trainingDataBuffer) = 1
             /\ db'.row.training_data_count = db.row.training_data_count + 1
             /\ db'.row.fouling_accumulation_rate = db.row.fouling_accumulation_rate
             /\ model'[2].foulingAccumulationRate = db.row.fouling_accumulation_rate ]_vars

C28_Witness ==
    /\ call.op = "POST /readings" /\ call.result.status = 201
    /\ db.writes = 3
    /\ db.row.training_data_count = 10
    /\ model[2].trainingDataCount = 10
    /\ Len(model[2].trainingDataBuffer) = 1
    /\ model[2].trainingDataBuffer[1].frLevel > 0
    /\ db.row.fouling_accumulation_rate = Scale

\* C29: on one engine instance, after every accepted updateFromReading the
\* fouling_models row holds the instance's correctionFactor,
\* foulingAccumulationRate, confidence and count, and the count has grown
\* by one; also when no row existed at construction: the first reading
\* creates the row and every later one still persists its result.
C29_RowFollowsInstance ==
    [][ (call'.op = "updateFromReading" /\ call'.result.returned = "object")
          => /\ model'[call'.instance].trainingDataCount =
                   model[call'.instance].trainingDataCount + 1
             /\ db'.row = SavedColumns(model'[call'.instance]) ]_vars

====
